---- MODULE Spec2Model ----
(***************************************************************************)
(* Recruitment analytics pipeline of src/app.py: an uploaded table of      *)
(* applicant records is normalised, aggregated per institution, scored     *)
(* (ratios, Bayesian ROI), simulated under a yield uplift, classified,     *)
(* grouped per year and projected.  One action per block of the script.    *)
(*                                                                         *)
(* Floating point values are modelled as exact rationals [n, d] with the   *)
(* IEEE specials NaN = 0/0 and +-Inf = +-1/0, so that a division by zero   *)
(* and pandas' null handling are visible.  Data frames whose row order no  *)
(* statement reads (hs, semester_yield, yearly) are sets of rows; df, whose *)
(* order Series.mode and sort_values can observe, is a sequence.  The GPA  *)
(* values and HS_quality, the category filter and the charts are left out; *)
(* the GPA column's presence is kept, since its lookup can raise.          *)
(***************************************************************************)
EXTENDS Integers, Sequences, FiniteSets, TLC

VARIABLES
    uploaded_file,      \* the uploaded CSV: [transfer, columns, rows]
    relative_increase,  \* the sidebar slider, in percent (0..50)
    pc,                 \* position in the script
    error,              \* "none", or the column whose lookup raised KeyError
    field_map,          \* canonical key -> source column name
    df,                 \* the working data frame (sequence of records)
    hs,                 \* institution rows
    global_roi,         \* sum(enrolled) / sum(applicants) over hs
    semester_yield,     \* (school, term) cohort rows
    thresholds,         \* [vol, roi] classification thresholds
    yearly,             \* (school, Year) rows
    projection,         \* result of the projection block
    cagr_call           \* a direct application of calculate_cagr

vars == << uploaded_file, relative_increase, pc, error, field_map, df, hs,
           global_roi, semester_yield, thresholds, yearly, projection,
           cagr_call >>

-----------------------------------------------------------------------------
(* Bounds of the model *)

\* largest number of rows of an uploaded table
MaxRows == 3

-----------------------------------------------------------------------------
(* Program constants *)

TUITION_PER_SEM == 3465

k == 5

\* semesters_lost_map, as a function on its keys
semesters_lost_map ==
    (1229 :> 7) @@ (1232 :> 6) @@ (1239 :> 5) @@ (1242 :> 4) @@
    (1249 :> 3) @@ (1252 :> 2) @@ (1259 :> 1)

term_to_year ==
    (1229 :> 2022) @@ (1232 :> 2023) @@ (1239 :> 2023) @@ (1242 :> 2024) @@
    (1249 :> 2024) @@ (1252 :> 2025) @@ (1259 :> 2025)

\* the slider's range and default (percent)
SliderMin == 0

SliderMax == 50

SliderDefault == 10

field_map_transfer ==
    [ school |-> "LAST_COL_UGRD_DESCR", term |-> "ADMIT_TERM",
      admitted |-> "admitted", matriculated |-> "matriculated",
      enrolled |-> "enrolled", gpa |-> "Coll_GPA", program |-> "Department",
      city |-> "Coll_City", state |-> "Coll_State" ]

field_map_hs ==
    [ school |-> "HS_Name", term |-> "ADMIT_TERM",
      admitted |-> "admitted", matriculated |-> "matriculated",
      enrolled |-> "enrolled", gpa |-> "HS_GPA", program |-> "Department",
      city |-> "HS_City", state |-> "HS_State", type |-> "HS_Type" ]

-----------------------------------------------------------------------------
(* Numbers: exact rationals with NaN and the infinities *)

Abs(i) == IF i < 0 THEN -i ELSE i

Sign(i) == IF i < 0 THEN -1 ELSE IF i > 0 THEN 1 ELSE 0

RECURSIVE GCD(_, _)
GCD(a, b) == IF b = 0 THEN a ELSE GCD(b, a % b)

\* the number n/d in lowest terms; d = 0 gives NaN (n = 0) or +-Inf
Rat(n, d) ==
    IF d = 0 THEN [n |-> Sign(n), d |-> 0]
    ELSE LET g == GCD(Abs(n), Abs(d))
             s == Sign(d)
         IN  [n |-> (s * n) \div g, d |-> (s * d) \div g]

NaN == [n |-> 0, d |-> 0]

Num(i) == [n |-> i, d |-> 1]

IsNaN(x) == x.d = 0 /\ x.n = 0

IsInf(x) == x.d = 0 /\ x.n # 0

IsFinite(x) == x.d > 0

\* Arithmetic on finite values; NaN propagates.  Infinities arise only from
\* FloatDiv and are never an operand of later arithmetic in the script.
FloatAdd(x, y) ==
    IF ~IsFinite(x) \/ ~IsFinite(y) THEN NaN
    ELSE Rat(x.n * y.d + y.n * x.d, x.d * y.d)

FloatSub(x, y) ==
    IF ~IsFinite(x) \/ ~IsFinite(y) THEN NaN
    ELSE Rat(x.n * y.d - y.n * x.d, x.d * y.d)

FloatMul(x, y) ==
    IF ~IsFinite(x) \/ ~IsFinite(y) THEN NaN
    ELSE Rat(x.n * y.n, x.d * y.d)

\* numpy division: x/0 is +-inf, 0/0 is nan
FloatDiv(x, y) ==
    IF ~IsFinite(x) \/ ~IsFinite(y) THEN NaN
    ELSE IF y.n = 0 THEN [n |-> Sign(x.n), d |-> 0]
    ELSE Rat(x.n * y.d, x.d * y.n)

\* IEEE comparisons: false as soon as an operand is NaN
FloatLt(x, y) == IsFinite(x) /\ IsFinite(y) /\ x.n * y.d < y.n * x.d

FloatGeq(x, y) == IsFinite(x) /\ IsFinite(y) /\ x.n * y.d >= y.n * x.d

FloatLeq(x, y) == FloatGeq(y, x)

\* Series.clip(upper=u): NaN stays NaN
ClipUpper(x, u) == IF FloatLt(u, x) THEN u ELSE x

\* sum of the integers f[x], x in DOMAIN f
RECURSIVE SumInt(_)
SumInt(f) ==
    IF DOMAIN f = {} THEN 0
    ELSE LET x == CHOOSE y \in DOMAIN f : TRUE
         IN  f[x] + SumInt([y \in DOMAIN f \ {x} |-> f[y]])

\* pandas sum (skipna=True, min_count=0): NaN entries are skipped, and the sum
\* of no entries is 0
RECURSIVE SumSkipNa(_)
SumSkipNa(f) ==
    IF DOMAIN f = {} THEN Num(0)
    ELSE LET x == CHOOSE y \in DOMAIN f : TRUE
             rest == SumSkipNa([y \in DOMAIN f \ {x} |-> f[y]])
         IN  IF IsNaN(f[x]) THEN rest ELSE FloatAdd(f[x], rest)

\* pandas mean (skipna=True): the mean of the non-NaN entries, NaN if none
MeanSkipNa(f) ==
    LET present == {x \in DOMAIN f : ~IsNaN(f[x])}
    IN  FloatDiv(SumSkipNa(f), Num(Cardinality(present)))

-----------------------------------------------------------------------------
(* Uploaded tables *)

Range(f) == {f[x] : x \in DOMAIN f}

Schools == <<"A", "B">>

Types == <<"public", "private">>

Flags == <<"N", "Y">>

\* program names in lexicographic order, which is the order Series.mode sorts in
SortedPrograms == <<"Art", "Bio", "Chem">>

\* an empty Department cell (read as NaN)
NoProgram == "NaN"

\* known terms of two different years, and a term code that is in neither
\* lookup table
Terms == <<1229, 1259, 1262>>

RawRecord(school, type, term, admitted, matriculated, enrolled, program) ==
    [ school |-> school, type |-> type, city |-> "NYC", state |-> "NY",
      term |-> term, admitted |-> admitted, matriculated |-> matriculated,
      enrolled |-> enrolled, program |-> program ]

\* records that differ in institution, school type (two types for school A)
\* and the three flags: i in 0..23
FlagRecord(i) ==
    RawRecord(Schools[(i \div 16) + 1], Types[((i \div 8) % 2) + 1], 1242,
              Flags[((i \div 4) % 2) + 1], Flags[((i \div 2) % 2) + 1],
              Flags[(i % 2) + 1], "Bio")

\* records that differ in institution, term, admitted and enrolled: i in
\* 0..27, the last four of school A in term 1252, which shares the year of 1259
TermRecord(i) ==
    RawRecord(IF i >= 24 THEN "A" ELSE Schools[(i \div 12) + 1], "public",
              IF i >= 24 THEN 1252 ELSE Terms[((i \div 4) % 3) + 1],
              Flags[((i \div 2) % 2) + 1], Flags[((i \div 2) % 2) + 1],
              Flags[(i % 2) + 1], "Bio")

\* records of one institution that differ in school type and program
ProgramRecord(i) ==
    RawRecord("A", Types[(i \div 4) + 1], 1242, "Y", "Y", "Y",
              IF i % 4 = 3 THEN NoProgram ELSE SortedPrograms[(i % 4) + 1])

\* index sequences of length n
Orders(n, top) == [1..n -> 0..top]

\* those in non-decreasing order: one table per multiset of records (the
\* aggregations over them do not read the row order)
NonDecreasing(s) == \A j \in 1..(Len(s) - 1) : s[j] <= s[j + 1]

HsFile(rows) ==
    [transfer |-> FALSE, columns |-> Range(field_map_hs), rows |-> rows]

TransferFile(rows) ==
    [transfer |-> TRUE, columns |-> Range(field_map_transfer), rows |-> rows]

\* tables whose records differ in institution, school type and flags
FlagInputs ==
    \E n \in 1..MaxRows : \E s \in Orders(n, 23) :
       /\ NonDecreasing(s)
       /\ uploaded_file = HsFile([j \in DOMAIN s |-> FlagRecord(s[j])])
       /\ relative_increase = SliderDefault

\* tables whose records differ in institution, term, admitted and enrolled,
\* under the smallest and the largest uplift
TermInputs ==
    \E n \in 1..MaxRows : \E s \in Orders(n, 27) :
       /\ NonDecreasing(s)
       /\ uploaded_file = HsFile([j \in DOMAIN s |-> TermRecord(s[j])])
       /\ relative_increase \in {SliderMin, SliderMax}

\* tables of either variant whose records differ in school type and program,
\* in every row order
ProgramInputs ==
    \E n \in 1..MaxRows : \E s \in Orders(n, 7) :
       /\ uploaded_file \in { HsFile([j \in DOMAIN s |-> ProgramRecord(s[j])]),
                              TransferFile([j \in DOMAIN s |-> ProgramRecord(s[j])]) }
       /\ relative_increase = SliderDefault

\* files of either variant in which any set of columns is absent
ColumnInputs ==
    /\ \/ \E c \in SUBSET Range(field_map_hs) :
             uploaded_file = [transfer |-> FALSE, columns |-> c,
                              rows |-> <<FlagRecord(7), FlagRecord(22)>>]
       \/ \E c \in SUBSET Range(field_map_transfer) :
             uploaded_file = [transfer |-> TRUE, columns |-> c,
                              rows |-> <<FlagRecord(7), FlagRecord(22)>>]
    /\ relative_increase = SliderDefault

NoProjection ==
    [ selected_school |-> "None", school_data |-> <<>>, projected |-> FALSE,
      years_diff |-> 0, app_growth |-> <<>>, enroll_growth |-> <<>>,
      future_years |-> <<>>, future_apps |-> <<>>, future_enrolls |-> <<>> ]

Init ==
    /\ \/ FlagInputs
       \/ TermInputs
       \/ ProgramInputs
       \/ ColumnInputs
    /\ pc = "upload"
    /\ error = "none"
    /\ field_map = <<>>
    /\ df = <<>>
    /\ hs = {}
    /\ global_roi = NaN
    /\ semester_yield = {}
    /\ thresholds = [vol |-> NaN, roi |-> NaN]
    /\ yearly = {}
    /\ projection = NoProjection
    /\ cagr_call = <<>>

-----------------------------------------------------------------------------
(* Lines 12-55: the upload, the field map, read_csv *)

Upload ==
    /\ pc = "upload"
    /\ field_map' = IF uploaded_file.transfer THEN field_map_transfer
                                              ELSE field_map_hs
    /\ df' = uploaded_file.rows
    /\ pc' = "normalize"
    /\ UNCHANGED << uploaded_file, relative_increase, error, hs, global_roi,
                    semester_yield, thresholds, yearly, projection, cagr_call >>

\* df[field_map[key]] raises KeyError when the file has no such column
HasColumn(key) == field_map[key] \in uploaded_file.columns

\* the first key of `keys` whose column lookup raises, or "none"
FirstMissing(keys) ==
    IF \A i \in DOMAIN keys : HasColumn(keys[i]) THEN "none"
    ELSE keys[CHOOSE i \in DOMAIN keys :
                 /\ ~HasColumn(keys[i])
                 /\ \A j \in 1..(i - 1) : HasColumn(keys[j])]

-----------------------------------------------------------------------------
(* Lines 63-83: semesters_lost, the flags, money_lost *)

\* column lookups of lines 68-75, in order ('gpa' is always a key of field_map)
NormalizeKeys == <<"term", "admitted", "matriculated", "enrolled", "gpa">>

\* variant: a default of 0 in place of NaN (a .fillna(0) after the map)
SemestersLost_Default0(term) ==
    IF term \in DOMAIN semesters_lost_map THEN Num(semesters_lost_map[term])
    ELSE Num(0)

\* Series.map(semesters_lost_map): NaN for a term that is not a key
SemestersLost(term) ==
    IF term \in DOMAIN semesters_lost_map THEN Num(semesters_lost_map[term])
    ELSE NaN

\* .replace({"Y":1,"N":0}).astype(int)
FlagToInt(v) == CASE v = "Y" -> 1 [] v = "N" -> 0

MoneyLost(admitted, enrolled, semesters_lost) ==
    FloatMul(FloatMul(Num(admitted - enrolled), semesters_lost),
             Num(TUITION_PER_SEM))

NormalizeRecord(r) ==
    LET a == FlagToInt(r.admitted)
        m == FlagToInt(r.matriculated)
        e == FlagToInt(r.enrolled)
        sl == SemestersLost(r.term)
    IN  [ school |-> r.school, type |-> r.type, city |-> r.city,
          state |-> r.state, term |-> r.term, program |-> r.program,
          admitted |-> a, matriculated |-> m, enrolled |-> e,
          semesters_lost |-> sl, money_lost |-> MoneyLost(a, e, sl) ]

Normalize ==
    /\ pc = "normalize"
    /\ FirstMissing(NormalizeKeys) = "none"
    /\ df' = [i \in DOMAIN df |-> NormalizeRecord(df[i])]
    /\ pc' = "aggregate"
    /\ UNCHANGED << uploaded_file, relative_increase, error, field_map, hs,
                    global_roi, semester_yield, thresholds, yearly, projection,
                    cagr_call >>

NormalizeKeyError ==
    /\ pc = "normalize"
    /\ FirstMissing(NormalizeKeys) # "none"
    /\ error' = FirstMissing(NormalizeKeys)
    /\ pc' = "error"
    /\ UNCHANGED << uploaded_file, relative_increase, field_map, df, hs,
                    global_roi, semester_yield, thresholds, yearly, projection,
                    cagr_call >>

-----------------------------------------------------------------------------
(* Lines 86-104: the institution table *)

\* rows of df whose school is `school` (groupby(school).size())
applicant_counts(school) ==
    Cardinality({i \in DOMAIN df : df[i].school = school})

\* the type column joins the grouping key when the map and the file have it
hs_groupby_fields ==
    IF "type" \in DOMAIN field_map /\ field_map["type"] \in uploaded_file.columns
    THEN <<"school", "type", "city", "state">>
    ELSE <<"school", "city", "state">>

\* column lookups of lines 86-99, in order
AggregateKeys == <<"school">> \o hs_groupby_fields \o <<"program">>

GroupKey(r) == [f \in Range(hs_groupby_fields) |-> r[f]]

Members(key) == {i \in DOMAIN df : GroupKey(df[i]) = key}

\* position of a program name in the sort order
ProgramRank(p) == CHOOSE i \in DOMAIN SortedPrograms : SortedPrograms[i] = p

\* Series.mode(): the non-null values of highest count (dropna=True)
Mode(members) ==
    LET values == {df[i].program : i \in members} \ {NoProgram}
        Count(p) == Cardinality({i \in members : df[i].program = p})
    IN  {p \in values : \A q \in values : Count(q) <= Count(p)}

\* variant: the mode that occurs first in the group (Counter.most_common order)
ModeEntry0_FirstSeen(modes, members) ==
    df[CHOOSE i \in members :
          /\ df[i].program \in modes
          /\ \A j \in members : df[j].program \in modes => i <= j].program

\* mode()[0]: Series.mode returns its values sorted, so entry 0 is the smallest
ModeEntry0(modes, members) ==
    CHOOSE p \in modes : \A q \in modes : ProgramRank(p) <= ProgramRank(q)

\* lambda x: x.mode()[0] if not x.mode().empty else None
most_common_program(members) ==
    IF Mode(members) = {} THEN "None"
    ELSE ModeEntry0(Mode(members), members)

HsRow(key) ==
    LET members == Members(key)
    IN  [ key |-> key,
          school |-> key["school"],
          admitted |-> SumInt([i \in members |-> df[i].admitted]),
          matriculated |-> SumInt([i \in members |-> df[i].matriculated]),
          enrolled |-> SumInt([i \in members |-> df[i].enrolled]),
          most_common_program |-> most_common_program(members),
          money_lost |-> SumSkipNa([i \in members |-> df[i].money_lost]),
          applicants |-> applicant_counts(key["school"]) ]

Aggregate ==
    /\ pc = "aggregate"
    /\ FirstMissing(AggregateKeys) = "none"
    /\ hs' = {HsRow(key) : key \in {GroupKey(df[i]) : i \in DOMAIN df}}
    /\ pc' = "ratios"
    /\ UNCHANGED << uploaded_file, relative_increase, error, field_map, df,
                    global_roi, semester_yield, thresholds, yearly, projection,
                    cagr_call >>

AggregateKeyError ==
    /\ pc = "aggregate"
    /\ FirstMissing(AggregateKeys) # "none"
    /\ error' = FirstMissing(AggregateKeys)
    /\ pc' = "error"
    /\ UNCHANGED << uploaded_file, relative_increase, field_map, df, hs,
                    global_roi, semester_yield, thresholds, yearly, projection,
                    cagr_call >>

-----------------------------------------------------------------------------
(* Lines 109-116: ratios and the Bayesian ROI *)

\* variant: line 112 left out
ReplaceInf_Skipped(x) == x

\* hs.replace([np.inf, -np.inf], np.nan)
ReplaceInf(x) == IF IsInf(x) THEN NaN ELSE x

\* a ratio column after line 112
Ratio(numerator, denominator) ==
    ReplaceInf(FloatDiv(Num(numerator), Num(denominator)))

GlobalROI(rows) ==
    FloatDiv(Num(SumInt([row \in rows |-> row.enrolled])),
             Num(SumInt([row \in rows |-> row.applicants])))

\* variant: the pseudo-count left out of the denominator
BayesROI_NoPrior(enrolled, applicants, groi) ==
    FloatDiv(FloatAdd(Num(enrolled), FloatMul(groi, Num(k))),
             Num(applicants))

BayesROI(enrolled, applicants, groi) ==
    FloatDiv(FloatAdd(Num(enrolled), FloatMul(groi, Num(k))),
             Num(applicants + k))

Ratios ==
    /\ pc = "ratios"
    /\ global_roi' = GlobalROI(hs)
    /\ hs' = { [ yield |-> Ratio(row.enrolled, row.admitted),
                 specific_yield |-> Ratio(row.enrolled, row.matriculated),
                 ROI |-> Ratio(row.enrolled, row.applicants),
                 bayes_ROI |-> BayesROI(row.enrolled, row.applicants,
                                        GlobalROI(hs)) ] @@ row
               : row \in hs }
    /\ pc' = "simulate"
    /\ UNCHANGED << uploaded_file, relative_increase, error, field_map, df,
                    semester_yield, thresholds, yearly, projection, cagr_call >>

-----------------------------------------------------------------------------
(* Lines 122-155: the yield simulation and its roll-up *)

CohortMembers(school, term) ==
    {i \in DOMAIN df : df[i].school = school /\ df[i].term = term}

\* the 'first' aggregation: the first non-null value of the group, else NaN
First(members) ==
    LET present == {i \in members : ~IsNaN(df[i].semesters_lost)}
    IN  IF present = {} THEN NaN
        ELSE df[CHOOSE i \in present : \A j \in present : i <= j].semesters_lost

NewYield(enrolled, admitted, increase) ==
    ClipUpper(FloatMul(FloatDiv(Num(enrolled), Num(admitted)),
                       FloatAdd(Num(1), increase)),
              Num(1))

Cohort(school, term) ==
    LET members == CohortMembers(school, term)
        admitted == SumInt([i \in members |-> df[i].admitted])
        enrolled == SumInt([i \in members |-> df[i].enrolled])
        semesters_lost == First(members)
        new_yield == NewYield(enrolled, admitted, Rat(relative_increase, 100))
        expected_enrolled == FloatMul(Num(admitted), new_yield)
        additional_students == FloatSub(expected_enrolled, Num(enrolled))
    IN  [ school |-> school, term |-> term,
          admitted |-> admitted, enrolled |-> enrolled,
          semesters_lost |-> semesters_lost,
          new_yield |-> new_yield,
          expected_enrolled |-> expected_enrolled,
          additional_students |-> additional_students,
          additional_revenue |->
              FloatMul(FloatMul(additional_students, semesters_lost),
                       Num(TUITION_PER_SEM)) ]

\* the cohort table after the filter admitted > 0
SemesterYield ==
    { c \in {Cohort(df[i].school, df[i].term) : i \in DOMAIN df}
      : c.admitted > 0 }

\* variant: a sum that does not skip nulls (sum(skipna=False))
MergedRevenue_NoSkip(school, cohorts) ==
    LET own == {c \in cohorts : c.school = school}
    IN  IF own = {} \/ \E c \in own : IsNaN(c.additional_revenue) THEN NaN
        ELSE SumSkipNa([c \in own |-> c.additional_revenue])

\* hs.merge(additional_revenue_hs, how='left'): the per-school sum, or NaN for
\* a school with no row in the cohort table
MergedRevenue(school, cohorts) ==
    LET own == {c \in cohorts : c.school = school}
    IN  IF own = {} THEN NaN
        ELSE SumSkipNa([c \in own |-> c.additional_revenue])

Simulate ==
    /\ pc = "simulate"
    /\ semester_yield' = SemesterYield
    /\ hs' = { [additional_revenue |-> MergedRevenue(row.school, SemesterYield)]
               @@ row : row \in hs }
    /\ pc' = "classify"
    /\ UNCHANGED << uploaded_file, relative_increase, error, field_map, df,
                    global_roi, thresholds, yearly, projection, cagr_call >>

-----------------------------------------------------------------------------
(* Lines 160-173: the classification *)

vol_thresh(rows) == MeanSkipNa([row \in rows |-> Num(row.applicants)])

roi_thresh(rows) == MeanSkipNa([row \in rows |-> row.bayes_ROI])

\* variant: a volume threshold that is met only when exceeded
classify_strict(row, vol, roi) ==
    IF FloatLt(vol, Num(row.applicants)) /\ FloatGeq(row.bayes_ROI, roi)
    THEN "Flagship"
    ELSE IF FloatLeq(Num(row.applicants), vol) /\ FloatGeq(row.bayes_ROI, roi)
    THEN "Fringe Gem"
    ELSE IF FloatLt(vol, Num(row.applicants)) /\ FloatLt(row.bayes_ROI, roi)
    THEN "Over-recruited"
    ELSE "Low Priority"

classify(row, vol, roi) ==
    IF FloatGeq(Num(row.applicants), vol) /\ FloatGeq(row.bayes_ROI, roi)
    THEN "Flagship"
    ELSE IF FloatLt(Num(row.applicants), vol) /\ FloatGeq(row.bayes_ROI, roi)
    THEN "Fringe Gem"
    ELSE IF FloatGeq(Num(row.applicants), vol) /\ FloatLt(row.bayes_ROI, roi)
    THEN "Over-recruited"
    ELSE "Low Priority"

Classify ==
    /\ pc = "classify"
    /\ thresholds' = [vol |-> vol_thresh(hs), roi |-> roi_thresh(hs)]
    /\ hs' = { [Recruitment_Category |->
                   classify(row, vol_thresh(hs), roi_thresh(hs))] @@ row
               : row \in hs }
    /\ pc' = "yearly"
    /\ UNCHANGED << uploaded_file, relative_increase, error, field_map, df,
                    global_roi, semester_yield, yearly, projection, cagr_call >>

-----------------------------------------------------------------------------
(* Lines 192-206: the Year column and the yearly table *)

HasYear(r) == r.term \in DOMAIN term_to_year

\* df with the Year column, after dropna(subset=['Year'])
WithYear(frame) ==
    LET kept == SelectSeq(frame, HasYear)
    IN  [i \in DOMAIN kept |-> [Year |-> term_to_year[kept[i].term]] @@ kept[i]]

YearRow(frame, school, year) ==
    LET members == {i \in DOMAIN frame :
                       frame[i].school = school /\ frame[i].Year = year}
    IN  [ school |-> school, Year |-> year,
          applicants |-> Cardinality(members),
          admitted |-> SumInt([i \in members |-> frame[i].admitted]),
          enrolled |-> SumInt([i \in members |-> frame[i].enrolled]) ]

Yearly ==
    /\ pc = "yearly"
    /\ df' = WithYear(df)
    /\ yearly' = { YearRow(WithYear(df), r.school, r.Year)
                   : r \in Range(WithYear(df)) }
    /\ pc' = "project"
    /\ UNCHANGED << uploaded_file, relative_increase, error, field_map, hs,
                    global_roi, semester_yield, thresholds, projection,
                    cagr_call >>

-----------------------------------------------------------------------------
(* Lines 208-245: the growth rate and the projection *)

RECURSIVE Pow(_, _)
Pow(b, e) == IF e = 0 THEN 1 ELSE b * Pow(b, e - 1)

\* A growth factor 1 + rate = (num/den)^(1/root), kept exact: num >= 0,
\* den > 0, root >= 1.
Growth(num, den, root) ==
    LET g == GCD(num, den)
    IN  [ num |-> num \div g, den |-> den \div g,
          root |-> IF num = den \/ num = 0 THEN 1 ELSE root ]

\* rate = 0, rate = 0.25, rate = -0.25
GrowthZero == Growth(1, 1, 1)

GrowthUpper == Growth(5, 4, 1)

GrowthLower == Growth(3, 4, 1)

\* x < y for growth factors: both sides raised to the power x.root * y.root
GrowthLt(x, y) ==
    Pow(x.num, y.root) * Pow(y.den, x.root) < Pow(y.num, x.root) * Pow(x.den, y.root)

GrowthEq(x, y) == ~GrowthLt(x, y) /\ ~GrowthLt(y, x)

\* Python's min(a, b) and max(a, b): a unless b is smaller (larger)
GrowthMin(a, b) == IF GrowthLt(b, a) THEN b ELSE a

GrowthMax(a, b) == IF GrowthLt(a, b) THEN b ELSE a

\* variant: the lower clamp left out
calculate_cagr_no_floor(first, last, years) ==
    IF first <= 0 \/ years <= 0 THEN GrowthZero
    ELSE GrowthMin(Growth(last, first, years), GrowthUpper)

calculate_cagr(first, last, years) ==
    IF first <= 0 \/ years <= 0 THEN GrowthZero
    ELSE GrowthMax(GrowthMin(Growth(last, first, years), GrowthUpper),
                   GrowthLower)

\* last_value * ((1 + growth) ** i), kept exact:
\* coef * (num/den)^(exp/root)
Projected(last_value, growth, i) ==
    [ coef |-> last_value, num |-> growth.num, den |-> growth.den,
      exp |-> i, root |-> growth.root ]

\* sort_values('Year') of rows with distinct years
RECURSIVE SortByYear(_)
SortByYear(rows) ==
    IF rows = {} THEN <<>>
    ELSE LET m == CHOOSE r \in rows : \A q \in rows : r.Year <= q.Year
         IN  <<m>> \o SortByYear(rows \ {m})

\* the projection block for the school picked in the select box
ProjectionOf(selected_school) ==
    LET school_data == SortByYear({r \in yearly : r.school = selected_school})
        n == Len(school_data)
    IN  IF n >= 2
        THEN LET first_year == school_data[1].Year
                 last_year == school_data[n].Year
                 years_diff == last_year - first_year
                 app_growth == calculate_cagr(school_data[1].applicants,
                                              school_data[n].applicants,
                                              years_diff)
                 enroll_growth == calculate_cagr(school_data[1].enrolled,
                                                 school_data[n].enrolled,
                                                 years_diff)
                 last_app == school_data[n].applicants
                 last_enroll == school_data[n].enrolled
             IN  [ selected_school |-> selected_school,
                   school_data |-> school_data,
                   projected |-> TRUE,
                   years_diff |-> years_diff,
                   app_growth |-> app_growth,
                   enroll_growth |-> enroll_growth,
                   future_years |-> [i \in 1..3 |-> last_year + i],
                   future_apps |->
                       [i \in 1..3 |-> Projected(last_app, app_growth, i)],
                   future_enrolls |->
                       [i \in 1..3 |-> Projected(last_enroll, enroll_growth, i)] ]
        ELSE [NoProjection EXCEPT !.selected_school = selected_school,
                                  !.school_data = school_data]

\* the select box offers the schools of yearly; with none it returns None
Project ==
    /\ pc = "project"
    /\ \E selected_school \in
            IF yearly = {} THEN {"None"} ELSE {r.school : r \in yearly} :
          projection' = ProjectionOf(selected_school)
    /\ pc' = "done"
    /\ UNCHANGED << uploaded_file, relative_increase, error, field_map, df, hs,
                    global_roi, semester_yield, thresholds, yearly, cagr_call >>

Next ==
    \/ Upload
    \/ Normalize
    \/ NormalizeKeyError
    \/ Aggregate
    \/ AggregateKeyError
    \/ Ratios
    \/ Simulate
    \/ Classify
    \/ Yearly
    \/ Project

Spec == Init /\ [][Next]_vars

-----------------------------------------------------------------------------
(* The growth projector on its own: yearly tables and arguments of           *)
(* calculate_cagr drawn from bounded sets                                    *)

HistoryYears == {2022, 2023, 2024, 2025}

\* <<applicants, enrolled>> of a (school, Year) row
HistoryCounts ==
    { <<1, 0>>, <<1, 1>>, <<50, 0>>, <<50, 40>>, <<100, 40>>, <<100, 100>> }

\* yearly tables of school "A": each year absent or holding one row
Histories ==
    { { [ school |-> "A", Year |-> y, applicants |-> h[y][1],
          admitted |-> h[y][1], enrolled |-> h[y][2] ]
        : y \in {z \in HistoryYears : h[z] # <<>>} }
      : h \in [HistoryYears -> HistoryCounts \cup {<<>>}] }

OtherSchool ==
    { {}, {[ school |-> "B", Year |-> 2024, applicants |-> 2, admitted |-> 1,
             enrolled |-> 1 ]} }

CagrFirsts == {-1, 0, 1, 2, 50, 100}

CagrLasts == {0, 1, 2, 3, 50, 100, 200}

CagrYears == {-1, 0, 1, 2, 3, 5}

InitCagr ==
    /\ uploaded_file = HsFile(<<>>)
    /\ relative_increase = SliderDefault
    /\ error = "none"
    /\ field_map = field_map_hs
    /\ df = <<>>
    /\ hs = {}
    /\ global_roi = NaN
    /\ semester_yield = {}
    /\ thresholds = [vol |-> NaN, roi |-> NaN]
    /\ projection = NoProjection
    /\ cagr_call = <<>>
    /\ \/ /\ pc = "project"
          /\ \E a \in Histories, b \in OtherSchool : yearly = a \cup b
       \/ /\ pc = "cagr"
          /\ yearly = {}

\* calculate_cagr applied to arguments of any sign
CagrCall ==
    /\ pc = "cagr"
    /\ \E first \in CagrFirsts, last \in CagrLasts, years \in CagrYears :
          cagr_call' = [ first |-> first, last |-> last, years |-> years,
                         rate |-> calculate_cagr(first, last, years) ]
    /\ pc' = "done"
    /\ UNCHANGED << uploaded_file, relative_increase, error, field_map, df, hs,
                    global_roi, semester_yield, thresholds, yearly, projection >>

NextCagr ==
    \/ Project
    \/ CagrCall

SpecCagr == InitCagr /\ [][NextCagr]_vars

-----------------------------------------------------------------------------
(* Properties.  They are stated over the uploaded rows, not over df, so      *)
(* that each one recomputes what it expects from the input.                  *)

Rows == uploaded_file.rows

Normalized == pc \in {"aggregate", "ratios", "simulate", "classify"}

HasRatios == pc \in {"simulate", "classify", "yearly", "project", "done"}

Simulated == pc \in {"classify", "yearly", "project", "done"}

Classified == pc \in {"yearly", "project", "done"}

Categories == {"Flagship", "Fringe Gem", "Over-recruited", "Low Priority"}

\* the uploaded rows of an institution row's group
RowsOf(row) ==
    {i \in DOMAIN Rows : \A f \in DOMAIN row.key : Rows[i][f] = row.key[f]}

\* the uploaded rows of a school
RowsOfSchool(school) == {i \in DOMAIN Rows : Rows[i].school = school}

Flagged(S, field) == Cardinality({i \in S : Rows[i][field] = "Y"})

\* C1: every institution row carries exactly one of the four categories, the
\* one the table gives for its applicants against the mean of applicants and
\* its bayes_ROI against the mean of bayes_ROI over the institution rows.
C1_Classification ==
    Classified =>
      LET n == Cardinality(hs)
          total == SumInt([row \in hs |-> row.applicants])
      IN  /\ thresholds.vol = Rat(total, n)
          /\ \A row \in hs : IsFinite(row.bayes_ROI)
          /\ FloatMul(thresholds.roi, Num(n))
                = SumSkipNa([row \in hs |-> row.bayes_ROI])
          /\ \A row \in hs :
                LET volMet == row.applicants * n >= total
                    roiMet == FloatGeq(row.bayes_ROI, thresholds.roi)
                    roiBelow == FloatLt(row.bayes_ROI, thresholds.roi)
                    cat == row.Recruitment_Category
                IN  /\ cat \in Categories
                    /\ (cat = "Flagship") <=> (volMet /\ roiMet)
                    /\ (cat = "Fringe Gem") <=> (~volMet /\ roiMet)
                    /\ (cat = "Over-recruited") <=> (volMet /\ roiBelow)
                    /\ (cat = "Low Priority") <=> (~volMet /\ roiBelow)

\* three of the categories occur in one classified table
C1_Witness ==
    /\ pc = "done"
    /\ Cardinality({row.Recruitment_Category : row \in hs}) >= 3

\* C2 (as claimed): every cohort of the simulation has new_yield <= 1 and
\* additional_students >= 0, for flags that are each 0 or 1 and any uplift.
C2_YieldBounds ==
    Simulated =>
      \A c \in semester_yield :
         /\ FloatLeq(c.new_yield, Num(1))
         /\ FloatGeq(c.additional_students, Num(0))

\* C3 (as claimed): an institution row without a cohort of admitted > 0
\* carries additional_revenue = 0.
C3_RollupFillZero ==
    Simulated =>
      \A row \in hs :
         (\A c \in semester_yield : c.school # row.school)
            => row.additional_revenue = Num(0)

\* C4: global_roi is sum(enrolled)/sum(applicants) over the institution rows,
\* bayes_ROI is (enrolled + global_roi*k)/(applicants + k), and for a row with
\* applicants > 0 and ROI # global_roi it lies strictly between the two.
C4_ShrinkageDirection ==
    HasRatios =>
      /\ global_roi = Rat(SumInt([row \in hs |-> row.enrolled]),
                          SumInt([row \in hs |-> row.applicants]))
      /\ \A row \in hs :
            /\ FloatMul(row.bayes_ROI, Num(row.applicants + 5))
                  = FloatAdd(Num(row.enrolled), FloatMul(global_roi, Num(5)))
            /\ (row.applicants > 0 /\ row.ROI # global_roi) =>
                  \/ FloatLt(row.ROI, row.bayes_ROI)
                        /\ FloatLt(row.bayes_ROI, global_roi)
                  \/ FloatLt(global_roi, row.bayes_ROI)
                        /\ FloatLt(row.bayes_ROI, row.ROI)

\* two institution rows of one school (the key is finer than the school), on
\* either side of global_roi
C4_Witness ==
    /\ HasRatios
    /\ \E r1 \in hs, r2 \in hs :
          /\ r1.school = r2.school
          /\ r1.key # r2.key
          /\ r1.applicants > r1.admitted + r2.admitted
          /\ FloatLt(r1.ROI, global_roi)
          /\ FloatLt(global_roi, r2.ROI)

\* C5: yield, specific_yield and ROI are null when their denominator is 0
\* (0/0 and x/0 alike) and enrolled/denominator otherwise; the thresholds are
\* the means over all institution rows, rows with a null ratio included.
C5_UndefinedRatiosNull ==
    /\ HasRatios =>
         \A row \in hs :
            /\ row.yield = IF row.admitted = 0 THEN NaN
                           ELSE Rat(row.enrolled, row.admitted)
            /\ row.specific_yield = IF row.matriculated = 0 THEN NaN
                                    ELSE Rat(row.enrolled, row.matriculated)
            /\ row.ROI = IF row.applicants = 0 THEN NaN
                         ELSE Rat(row.enrolled, row.applicants)
            /\ row.enrolled = Flagged(RowsOf(row), "enrolled")
            /\ row.matriculated = Flagged(RowsOf(row), "matriculated")
            /\ row.admitted = Flagged(RowsOf(row), "admitted")
    /\ Classified =>
         /\ thresholds.vol = Rat(SumInt([row \in hs |-> row.applicants]),
                                 Cardinality(hs))
         /\ IsFinite(thresholds.roi)

\* an institution none of whose records matriculated but one of which enrolled
\* (x/0), beside one with 0/0, after the classification
C5_Witness ==
    /\ Classified
    /\ \E r1 \in hs, r2 \in hs :
          /\ r1.matriculated = 0 /\ r1.enrolled > 0
          /\ r2.matriculated = 0 /\ r2.enrolled = 0
          /\ IsNaN(r1.specific_yield) /\ IsNaN(r2.specific_yield)

Present == {key \in DOMAIN field_map : HasColumn(key)}

\* C8 (as claimed): a file that lacks exactly one column, an optional one
\* (type, city, state, gpa, program, matriculated or the term), does not end
\* the run in an error.
C8_OptionalNeverAborts ==
    (pc = "error") =>
       ~ \E key \in {"type", "city", "state", "gpa", "program",
                     "matriculated", "term"} \cap DOMAIN field_map :
            Present = DOMAIN field_map \ {key}

\* the values of highest count among the non-null programs of a group of
\* uploaded rows
TopPrograms(S) ==
    LET values == {Rows[i].program : i \in S} \ {NoProgram}
        Count(p) == Cardinality({i \in S : Rows[i].program = p})
    IN  {p \in values : \A q \in values : Count(q) <= Count(p)}

\* the one of them that occurs first in the row order
FirstSeen(S) ==
    Rows[CHOOSE i \in S :
            /\ Rows[i].program \in TopPrograms(S)
            /\ \A j \in S : Rows[j].program \in TopPrograms(S) => i <= j].program

\* the one of them that is smallest in the sort order
Smallest(S) ==
    CHOOSE p \in TopPrograms(S) :
       \A q \in TopPrograms(S) : ProgramRank(p) <= ProgramRank(q)

\* C9 (as claimed): the modal program is a non-null value of highest count,
\* the first in row order among several, and null only for a group with no
\* non-null program.
C9_ModalFirstSeen ==
    (pc = "ratios" \/ HasRatios) =>
       \A row \in hs :
          row.most_common_program =
             IF TopPrograms(RowsOf(row)) = {} THEN "None"
             ELSE FirstSeen(RowsOf(row))

\* C9 (amended): the modal program is a non-null value of highest count, the
\* smallest in sort order among several, and null only for a group with no
\* non-null program.
C9_ModalSmallest ==
    (pc = "ratios" \/ HasRatios) =>
       \A row \in hs :
          row.most_common_program =
             IF TopPrograms(RowsOf(row)) = {} THEN "None"
             ELSE Smallest(RowsOf(row))

\* a group whose tie is won by a value that is not the first seen, beside a
\* group with no program at all
C9_Witness ==
    /\ pc = "ratios"
    /\ \E row \in hs :
          /\ Cardinality(TopPrograms(RowsOf(row))) >= 2
          /\ FirstSeen(RowsOf(row)) # Smallest(RowsOf(row))
          /\ row.most_common_program = Smallest(RowsOf(row))
    /\ \E row \in hs : row.most_common_program = "None"

KnownTerm(t) == t \in DOMAIN semesters_lost_map /\ t \in DOMAIN term_to_year

\* C10 (as claimed): a record of a term in neither table is in no cohort of
\* the yield simulation.
C10_UnknownTermInNoCohort ==
    Simulated =>
       \A i \in DOMAIN Rows :
          ~KnownTerm(Rows[i].term) =>
             ~ \E c \in semester_yield :
                  c.school = Rows[i].school /\ c.term = Rows[i].term

\* C10 (amended): such a record does not fail the run; it is counted in the
\* institution totals; it is in no cohort of a known term, and the cohort of
\* its own term has null semesters_lost and null additional_revenue, which the
\* roll-up skips; it is in no (school, Year) row.
C10_UnknownTermExcluded ==
    (\E i \in DOMAIN Rows : ~KnownTerm(Rows[i].term)) =>
       /\ pc # "error"
       /\ HasRatios =>
            \A row \in hs :
               /\ row.applicants = Cardinality(RowsOfSchool(row.school))
               /\ row.admitted = Flagged(RowsOf(row), "admitted")
               /\ row.enrolled = Flagged(RowsOf(row), "enrolled")
       /\ Simulated =>
            /\ \A c \in semester_yield :
                  LET S == {i \in RowsOfSchool(c.school) : Rows[i].term = c.term}
                  IN  /\ c.admitted = Flagged(S, "admitted")
                      /\ c.enrolled = Flagged(S, "enrolled")
                      /\ ~KnownTerm(c.term) =>
                            /\ IsNaN(c.semesters_lost)
                            /\ IsNaN(c.additional_revenue)
                      /\ KnownTerm(c.term) => IsFinite(c.additional_revenue)
            /\ \A row \in hs :
                  LET own == {c \in semester_yield : c.school = row.school}
                      known == {c \in own : KnownTerm(c.term)}
                  IN  own # {} =>
                         row.additional_revenue
                            = SumSkipNa([c \in known |-> c.additional_revenue])
       /\ pc \in {"project", "done"} =>
            /\ \A y \in yearly :
                  LET S == {i \in RowsOfSchool(y.school) :
                               /\ KnownTerm(Rows[i].term)
                               /\ term_to_year[Rows[i].term] = y.Year}
                  IN  /\ y.applicants = Cardinality(S)
                      /\ y.admitted = Flagged(S, "admitted")
                      /\ y.enrolled = Flagged(S, "enrolled")
            /\ \A i \in DOMAIN df : KnownTerm(df[i].term)

\* an admitted record of an unknown term in a school that also has an
\* admitted record of a known term, after the projection
C10_Witness ==
    /\ pc = "done"
    /\ \E i \in DOMAIN Rows, j \in DOMAIN Rows :
          /\ Rows[i].school = Rows[j].school
          /\ ~KnownTerm(Rows[i].term) /\ Rows[i].admitted = "Y"
          /\ KnownTerm(Rows[j].term) /\ Rows[j].admitted = "Y"
          /\ Rows[j].enrolled = "N"
    /\ relative_increase = SliderMax

\* rate within [-0.25, 0.25]
InRange(growth) == ~GrowthLt(growth, GrowthLower) /\ ~GrowthLt(GrowthUpper, growth)

\* coef * (num/den)^(exp/root) = value, for a factor with root 1
ProjectedIs(p, value) ==
    p.root = 1 /\ p.coef * Pow(p.num, p.exp) = value * Pow(p.den, p.exp)

\* C6: calculate_cagr returns 0 when first <= 0 or years <= 0 and otherwise
\* (last/first)^(1/years) - 1 clamped into [-0.25, 0.25]; cagr(0, any, 5) = 0,
\* cagr(100, 100, 3) = 0, cagr(50, 100, 3) = 0.25 and the first projected value
\* is then 125; a projection is made exactly for two or more years of history,
\* with years = last year - first year >= 1.
C6_GrowthRate ==
    /\ cagr_call # <<>> =>
         LET c == cagr_call
         IN  /\ InRange(c.rate)
             /\ (c.first <= 0 \/ c.years <= 0) => GrowthEq(c.rate, GrowthZero)
             /\ (c.first > 0 /\ c.years > 0) =>
                  IF c.last * Pow(4, c.years) >= c.first * Pow(5, c.years)
                  THEN GrowthEq(c.rate, GrowthUpper)
                  ELSE IF c.last * Pow(4, c.years) <= c.first * Pow(3, c.years)
                  THEN GrowthEq(c.rate, GrowthLower)
                  ELSE /\ c.rate.num * c.first = c.rate.den * c.last
                       /\ c.rate.root = c.years \/ c.last = c.first
             /\ (c.first = 0 /\ c.years = 5) => GrowthEq(c.rate, GrowthZero)
             /\ (c.first = 100 /\ c.last = 100 /\ c.years = 3)
                   => GrowthEq(c.rate, GrowthZero)
             /\ (c.first = 50 /\ c.last = 100 /\ c.years = 3)
                   => /\ GrowthEq(c.rate, GrowthUpper)
                      /\ ProjectedIs(Projected(100, c.rate, 1), 125)
    /\ (pc = "done" /\ cagr_call = <<>>) =>
         LET p == projection
             own == {r \in yearly : r.school = p.selected_school}
         IN  /\ p.projected <=> Cardinality(own) >= 2
             /\ p.projected =>
                  /\ p.years_diff >= 1
                  /\ \E lo \in own, hi \in own :
                        /\ \A r \in own : lo.Year <= r.Year /\ r.Year <= hi.Year
                        /\ p.years_diff = hi.Year - lo.Year
                        /\ p.app_growth =
                              calculate_cagr(lo.applicants, hi.applicants,
                                             hi.Year - lo.Year)
                        /\ p.future_years[1] = hi.Year + 1
                        /\ p.future_apps[1].coef = hi.applicants
                  /\ InRange(p.app_growth)
                  /\ InRange(p.enroll_growth)
                  /\ (p.school_data[1].applicants = 50
                        /\ p.school_data[Len(p.school_data)].applicants = 100
                        /\ p.years_diff = 3)
                       => /\ GrowthEq(p.app_growth, GrowthUpper)
                          /\ ProjectedIs(p.future_apps[1], 125)

\* the history (2022: 50 applicants), (2025: 100 applicants) projected
C6_Witness ==
    /\ pc = "done"
    /\ projection.projected
    /\ Len(projection.school_data) = 2
    /\ projection.school_data[1].Year = 2022
    /\ projection.school_data[1].applicants = 50
    /\ projection.school_data[2].Year = 2025
    /\ projection.school_data[2].applicants = 100
    /\ projection.future_years[1] = 2026
    /\ ProjectedIs(projection.future_apps[1], 125)

====
